---- MODULE Spec2Model ----
(***************************************************************************)
(* State-machine model of function_app.py: the blob-triggered handler      *)
(* blob_trigger_function, its retry policy, and the two storage            *)
(* containers it writes ("process" and "process-archive").                 *)
(***************************************************************************)
EXTENDS Integers, Sequences, FiniteSets, TLC

\* ------------------------------------------------------------------ bounds

\* Events handed to the function by the blob trigger in one run of the model.
MaxDeliveries == 2

\* The wall clock runs over the seconds 0..MaxSeconds.
MaxSeconds == 1

\* ------------------------------------------------------- program constants

\* @app.retry(max_retry_count=3)
max_retry_count == 3

\* ------------------------------------------------------------ environment

\* Host workers that may run the function at the same time.
Procs == {"w1", "w2"}

\* Sub-second positions of the clock (utcnow() has microsecond resolution;
\* two positions per second are enough to tell instants of one second apart).
Fractions == {0, 1}

\* The instants from 0.0 to MaxSeconds.0.
Times ==
    { t \in [sec : 0..MaxSeconds, frac : Fractions] :
          t.sec < MaxSeconds \/ t.frac = 0 }

Later(t, u) == u.sec > t.sec \/ (u.sec = t.sec /\ u.frac > t.frac)

\* What datetime.utcnow() can return after the clock was seen at `last`.
utcnow(last) == { t \in Times : ~Later(t, last) }

\* datetime.isoformat(): keeps the full resolution of the instant.
isoformat(t) == <<t.sec, t.frac>>

\* datetime.strftime('%Y%m%d%H%M%S'): truncates the instant to whole seconds.
strftime(t) == t.sec

\* The blobs the trigger can deliver: name, length, and what PIL finds in them.
Events ==
    { [name |-> "image/a.png", length |-> 4, mode |-> "RGBA"],
      [name |-> "image/c.bin", length |-> 4, mode |-> "corrupt"],
      [name |-> "image/e.png", length |-> 0, mode |-> "none"] }

\* Settings of the four environment variables the handler reads: "" is unset
\* (or empty), "malformed" a value the library that parses it rejects.
Env(conn, file, b64, scopes) ==
    [ connection_string |-> conn, google_credentials_file |-> file,
      google_credentials_b64 |-> b64, google_scopes |-> scopes ]

EnvValues ==
    { Env("ok", "", "valid", "ok"),
      Env("ok", "valid", "", "ok"),
      Env("ok", "valid", "malformed", "ok"),
      Env("ok", "malformed", "", "ok"),
      Env("ok", "", "", "ok"),
      Env("", "valid", "valid", "ok"),
      Env("malformed", "valid", "valid", "ok"),
      Env("ok", "valid", "valid", "") }

\* Bodies the Vision API can answer with (scores in hundredths): an empty
\* list, a body without the list, a list of one entry.
Responses ==
    { [responses |-> <<>>],
      [error |-> "unavailable"],
      [responses |-> << [textAnnotations |->
                           << [description |-> "STOP"] >>,
                         labelAnnotations |->
                           << [description |-> "sign", score |-> 80],
                              [description |-> "road", score |-> 95] >>] >>] }

\* dict.get(key, default)
Get(d, key, default) == IF key \in DOMAIN d THEN d[key] ELSE default

\* ------------------------------------------------------------------ state

VARIABLES
    clock,          \* the latest instant known to have passed
    blobs,          \* the storage account: set of [container, name, data]
    delivered,      \* events delivered so far
    pc,             \* where each worker's handler stands
    myblob,         \* the event being processed (<<>> when none)
    retry_count,    \* retries of the current event done by the host
    env,            \* the environment variables the execution read
    credentials,    \* source the credentials were loaded from
    encoded_image,  \* mode of the JPEG sent to the API
    response,       \* the API's answer (<<>> when none)
    parsed_data,    \* the record built from it (<<>> when none)
    error,          \* the exception the handler raised last
    \* history of the current event on each worker
    all_annotate,   \* every failed execution so far failed in the annotate call
    wrote_before,   \* an earlier execution for this event uploaded a blob
    \* history of the current execution on each worker
    run_calls,      \* annotate calls issued
    run_writes,     \* blobs uploaded: set of [container, name]
    replaced,       \* the record its upload replaced at
                    \* process/latest_result.json (<<>> when none)
    \* history of the storage
    unarchived,     \* records replaced at process/latest_result.json that
                    \* have no copy in process-archive
    published,      \* executions that returned normally
    dest_writes     \* uploads made to process/latest_result.json

vars == << clock, blobs, delivered, pc, myblob, retry_count, env, credentials,
           encoded_image, response, parsed_data, error, all_annotate,
           wrote_before, run_calls, run_writes, replaced,
           unarchived, published, dest_writes >>

locals == << env, credentials, encoded_image, response, parsed_data >>
event == << myblob, retry_count >>
hist == << all_annotate, wrote_before, run_calls, run_writes,
           replaced >>

NoError == [type |-> "none", step |-> "none"]
NoEnv == Env("", "", "", "")

\* ---------------------------------------------------------------- storage

\* Lines 167 and 184: the two containers.
process_container == "process"

\* (the archive written to the container of the current record)
archive_container_pasted == "process"

archive_container == "process-archive"

\* A blob name: its fixed text and the timestamp in it, if any.
process_blob_name == [stem |-> "latest_result", stamp |-> <<>>, ext |-> ".json"]

BlobId(container, name) == [container |-> container, name |-> name]

Exists(store, container, name) ==
    \E b \in store : b.container = container /\ b.name = name

\* The content of a blob that exists.
Content(store, container, name) ==
    (CHOOSE b \in store : b.container = container /\ b.name = name).data

\* BlobClient.upload_blob(data, overwrite): the storage after a successful
\* upload. Without overwrite an existing blob makes the call raise
\* ResourceExistsError (UploadConflict).
UploadConflict(store, container, name, overwrite) ==
    ~overwrite /\ Exists(store, container, name)

upload_blob(store, container, name, data) ==
    { b \in store : ~(b.container = container /\ b.name = name) }
        \cup { [container |-> container, name |-> name, data |-> data] }

Archive(store) == { b \in store : b.container = "process-archive" }

\* The record an archive blob is a copy of: its data without archived_at.
Archivee(data) ==
    [ text_annotations |-> data.text_annotations,
      label_annotations |-> data.label_annotations,
      processed_image |-> data.processed_image,
      processed_at |-> data.processed_at ]

\* Whether the archive holds a copy of the record.
Archived(store, record) ==
    \E b \in Archive(store) : Archivee(b.data) = record

\* ------------------------------------------------------- pure functions

\* Lines 50-56: the presence checks on the environment, in the code's order.
MissingConfig(e) ==
    \/ e.connection_string = ""
    \/ (e.google_credentials_file = "" /\ e.google_credentials_b64 = "")
    \/ e.google_scopes = ""

\* (the empty-blob check left out)
BlobIsEmpty_unchecked(b) == FALSE

\* Line 64: the empty-blob check.
BlobIsEmpty(b) == b.length = 0

\* Lines 80-94: where the credentials come from. The base64 variable is used
\* whenever it is set; the file is used only when it is not set.
CredentialSource(e) ==
    IF e.google_credentials_b64 # "" THEN "b64" ELSE "file"

\* Whether loading the credentials from that source raises.
CredentialLoadFails(e) ==
    IF CredentialSource(e) = "b64"
    THEN e.google_credentials_b64 # "valid"
    ELSE e.google_credentials_file # "valid"

\* Lines 83-84 raise ValueError (binascii.Error, UnicodeDecodeError and
\* JSONDecodeError are ValueErrors), lines 85 and 91 raise ValueError or, for a
\* file that cannot be opened, OSError.
CredentialErrors(e) ==
    IF e.google_credentials_b64 # "" THEN {"ValueError"}
    ELSE {"ValueError", "Exception"}

\* Image.open raises on bytes that are no image.
Decodable(mode) == mode \notin {"corrupt", "none"}

\* Lines 115-118: RGBA and LA images are pasted onto a white RGB background.
ConvertMode(mode) == IF mode \in {"RGBA", "LA"} THEN "RGB" ELSE mode

\* Image.save(format="JPEG") writes only these modes and raises on the others.
JpegWritable(mode) == mode \in {"1", "L", "RGB", "RGBX", "CMYK", "YCbCr"}

\* Line 142: `not response.get("responses")`.
ResponseIsEmpty(r) == Get(r, "responses", <<>>) = <<>>

\* (labels under a confidence of one half dropped)
ParseResponse_thresholded(r, name, now) ==
    LET api_response == Get(r, "responses", << <<>> >>)[1]
        text_annotations == Get(api_response, "textAnnotations", <<>>)
        label_annotations ==
            SelectSeq(Get(api_response, "labelAnnotations", <<>>),
                      LAMBDA l : l.score >= 50)
    IN  [ text_annotations |->
              [i \in 1..Len(text_annotations) |->
                  [text |-> text_annotations[i].description]],
          label_annotations |->
              [i \in 1..Len(label_annotations) |->
                  [label |-> label_annotations[i].description,
                   confidence |-> label_annotations[i].score]],
          processed_image |-> name,
          processed_at |-> isoformat(now) ]

\* Lines 148-162: the record built from the first entry of the response.
ParseResponse(r, name, now) ==
    LET api_response == Get(r, "responses", << <<>> >>)[1]
        text_annotations == Get(api_response, "textAnnotations", <<>>)
        label_annotations == Get(api_response, "labelAnnotations", <<>>)
    IN  [ text_annotations |->
              [i \in 1..Len(text_annotations) |->
                  [text |-> text_annotations[i].description]],
          label_annotations |->
              [i \in 1..Len(label_annotations) |->
                  [label |-> label_annotations[i].description,
                   confidence |-> label_annotations[i].score]],
          processed_image |-> name,
          processed_at |-> isoformat(now) ]

\* (the copy stamped again when it is archived)
ArchiveData_restamped(data, now) ==
    [ text_annotations |-> data.text_annotations,
      label_annotations |-> data.label_annotations,
      processed_image |-> data.processed_image,
      processed_at |-> isoformat(now),
      archived_at |-> isoformat(now) ]

\* Lines 177-178: the copy that is archived carries one more field.
ArchiveData(data, now) ==
    [ text_annotations |-> data.text_annotations,
      label_annotations |-> data.label_annotations,
      processed_image |-> data.processed_image,
      processed_at |-> data.processed_at,
      archived_at |-> isoformat(now) ]

\* Lines 181-182: the archive blob's name.
archive_blob_name(now) ==
    [stem |-> "result_", stamp |-> <<strftime(now)>>, ext |-> ".json"]

\* (the archive upload allowed to overwrite)
ArchiveOverwrite_allowed == TRUE

\* Line 173 passes overwrite=True, line 190 passes nothing (the default, False).
ProcessOverwrite == TRUE
ArchiveOverwrite == FALSE

\* (no bound on the retries)
ShouldRetry_always(n) == TRUE

\* (one retry too many)
ShouldRetry_off_by_one(n) == n <= max_retry_count

\* The retry policy of lines 25-28: the host runs the handler again after an
\* exception while fewer than max_retry_count retries have been made.
ShouldRetry(n) == n < max_retry_count

\* ----------------------------------------------------------------- actions

\* The locals of a handler that has not assigned them.
Unset(p) ==
    /\ env' = [env EXCEPT ![p] = NoEnv]
    /\ credentials' = [credentials EXCEPT ![p] = "none"]
    /\ encoded_image' = [encoded_image EXCEPT ![p] = "none"]
    /\ response' = [response EXCEPT ![p] = <<>>]
    /\ parsed_data' = [parsed_data EXCEPT ![p] = <<>>]

\* (the exception logged and not raised again: the handler returns)
Raise_swallowed(p, type, step) ==
    /\ pc' = [pc EXCEPT ![p] = "published"]
    /\ error' = [error EXCEPT ![p] = [type |-> type, step |-> step]]
    /\ all_annotate' = [all_annotate EXCEPT ![p] = @ /\ step = "annotate"]
    /\ Unset(p)

\* Lines 193-201: every exception is logged and raised again; the handler's
\* locals go with its frame.
Raise(p, type, step) ==
    /\ pc' = [pc EXCEPT ![p] = "raised"]
    /\ error' = [error EXCEPT ![p] = [type |-> type, step |-> step]]
    /\ all_annotate' = [all_annotate EXCEPT ![p] = @ /\ step = "annotate"]
    /\ Unset(p)

\* The state of a handler that starts to run.
Enter(p) ==
    /\ pc' = [pc EXCEPT ![p] = "received"]
    /\ Unset(p)
    /\ error' = [error EXCEPT ![p] = NoError]
    /\ run_calls' = [run_calls EXCEPT ![p] = 0]
    /\ run_writes' = [run_writes EXCEPT ![p] = {}]
    /\ replaced' = [replaced EXCEPT ![p] = <<>>]

\* The blob trigger hands a new or updated blob under image/ to a free worker.
Deliver(p) ==
    /\ pc[p] \in {"idle", "published", "failed"}
    /\ delivered < MaxDeliveries
    /\ \E e \in Events : myblob' = [myblob EXCEPT ![p] = <<e>>]
    /\ delivered' = delivered + 1
    /\ retry_count' = [retry_count EXCEPT ![p] = 0]
    /\ Enter(p)
    /\ all_annotate' = [all_annotate EXCEPT ![p] = TRUE]
    /\ wrote_before' = [wrote_before EXCEPT ![p] = FALSE]
    /\ UNCHANGED << clock, blobs, unarchived, published, dest_writes >>

\* Lines 37-74: the environment is read and checked, then the empty-blob
\* check, then the storage client.
Validate(p) ==
    /\ pc[p] = "received"
    /\ \E e \in EnvValues :
          IF MissingConfig(e)
          THEN Raise(p, "ValueError", "config")
          ELSE IF BlobIsEmpty(myblob[p][1])
          THEN Raise(p, "ValueError", "empty_blob")
          ELSE IF e.connection_string # "ok"
          THEN Raise(p, "ValueError", "storage_client")
          ELSE /\ env' = [env EXCEPT ![p] = e]
               /\ pc' = [pc EXCEPT ![p] = "validated"]
               /\ UNCHANGED << error, all_annotate, credentials,
                               encoded_image, response, parsed_data >>
    /\ UNCHANGED << clock, blobs, delivered, event, wrote_before,
                    run_calls, run_writes, replaced, unarchived,
                    published, dest_writes >>

\* Lines 76-100: the Vision client and its credentials. The settings are not
\* read again after this step.
ResolveCredentials(p) ==
    /\ pc[p] = "validated"
    /\ IF CredentialLoadFails(env[p])
       THEN \E type \in CredentialErrors(env[p]) :
                Raise(p, type, "credentials")
       ELSE /\ credentials' =
                   [credentials EXCEPT ![p] = CredentialSource(env[p])]
            /\ env' = [env EXCEPT ![p] = NoEnv]
            /\ pc' = [pc EXCEPT ![p] = "credentialed"]
            /\ UNCHANGED << error, all_annotate, encoded_image, response,
                            parsed_data >>
    /\ UNCHANGED << clock, blobs, delivered, event, wrote_before, run_calls,
                    run_writes, replaced, unarchived, published, dest_writes >>

\* (the blob passed on as it is, nothing encoded)
Normalize_skipped(p) ==
    /\ pc[p] = "credentialed"
    /\ pc' = [pc EXCEPT ![p] = "normalized"]
    /\ UNCHANGED << clock, blobs, delivered, event, locals, error, hist,
                    unarchived, published, dest_writes >>

\* Lines 102-125: read the blob, open it, flatten it, encode it as JPEG.
Normalize(p) ==
    /\ pc[p] = "credentialed"
    /\ LET mode == myblob[p][1].mode
       IN  IF ~Decodable(mode)
           THEN Raise(p, "Exception", "decode")
           ELSE IF ~JpegWritable(ConvertMode(mode))
           THEN Raise(p, "Exception", "encode")
           ELSE /\ encoded_image' =
                       [encoded_image EXCEPT ![p] = ConvertMode(mode)]
                /\ pc' = [pc EXCEPT ![p] = "normalized"]
                /\ UNCHANGED << error, all_annotate, env, credentials,
                                response, parsed_data >>
    /\ UNCHANGED << clock, blobs, delivered, event, wrote_before, run_calls,
                    run_writes, replaced, unarchived, published, dest_writes >>

\* Line 140: the call raises (HttpError, a timeout, a network error) at some
\* instant, which the clock then shows.
AnnotateFails(p) ==
    /\ pc[p] = "normalized"
    /\ Raise(p, "Exception", "annotate")
    /\ run_calls' = [run_calls EXCEPT ![p] = @ + 1]
    /\ \E now \in utcnow(clock) : clock' = now
    /\ UNCHANGED << blobs, delivered, event, wrote_before, run_writes,
                    replaced, unarchived, published, dest_writes >>

\* (lines 142-144 left out: an empty list fails in line 148, a body without
\* the list is parsed as [{}])
Annotate_unchecked(p) ==
    /\ pc[p] = "normalized"
    /\ \E r \in Responses, now \in utcnow(clock) :
          /\ clock' = now
          /\ IF Get(r, "responses", << <<>> >>) = <<>>
             THEN Raise(p, "Exception", "response")
             ELSE /\ response' = [response EXCEPT ![p] = <<r>>]
                  /\ parsed_data' = [parsed_data EXCEPT ![p] =
                        << ParseResponse(r, myblob[p][1].name, now) >>]
                  /\ pc' = [pc EXCEPT ![p] = "annotated"]
                  /\ UNCHANGED << error, all_annotate, env, credentials,
                                  encoded_image >>
    /\ run_calls' = [run_calls EXCEPT ![p] = @ + 1]
    /\ UNCHANGED << blobs, delivered, event, wrote_before, run_writes,
                    replaced, unarchived, published, dest_writes >>

\* Lines 140-162: the call returns; an empty answer raises, any other is parsed
\* into the record, stamped with the current time.
Annotate(p) ==
    /\ pc[p] = "normalized"
    /\ \E r \in Responses, now \in utcnow(clock) :
          /\ clock' = now
          /\ IF ResponseIsEmpty(r)
             THEN Raise(p, "ValueError", "response")
             ELSE /\ response' = [response EXCEPT ![p] = <<r>>]
                  /\ parsed_data' = [parsed_data EXCEPT ![p] =
                        << ParseResponse(r, myblob[p][1].name, now) >>]
                  /\ pc' = [pc EXCEPT ![p] = "annotated"]
                  /\ UNCHANGED << error, all_annotate, env, credentials,
                                  encoded_image >>
    /\ run_calls' = [run_calls EXCEPT ![p] = @ + 1]
    /\ UNCHANGED << blobs, delivered, event, wrote_before, run_writes,
                    replaced, unarchived, published, dest_writes >>

\* Line 173: the upload to the process container raises (storage error).
UploadProcessFails(p) ==
    /\ pc[p] = "annotated"
    /\ Raise(p, "Exception", "upload_process")
    /\ UNCHANGED << clock, blobs, delivered, event, wrote_before, run_calls,
                    run_writes, replaced, unarchived, published, dest_writes >>

\* Lines 164-174: the record replaces process/latest_result.json.
UploadProcess(p) ==
    /\ pc[p] = "annotated"
    /\ LET name == process_blob_name
           data == parsed_data[p][1]
           had == Exists(blobs, process_container, name)
           old == Content(blobs, process_container, name)
       IN  IF UploadConflict(blobs, process_container, name, ProcessOverwrite)
           THEN /\ Raise(p, "ResourceExistsError", "upload_process")
                /\ UNCHANGED << blobs, run_writes, replaced, unarchived,
                                dest_writes >>
           ELSE /\ blobs' = upload_blob(blobs, process_container, name, data)
                /\ run_writes' = [run_writes EXCEPT ![p] =
                                      @ \cup {BlobId(process_container, name)}]
                /\ replaced' = [replaced EXCEPT ![p] =
                                    IF had THEN <<old>> ELSE <<>>]
                /\ unarchived' =
                       IF had /\ old # data /\ ~Archived(blobs, old)
                       THEN unarchived \cup {old}
                       ELSE unarchived
                /\ dest_writes' = dest_writes + 1
                /\ pc' = [pc EXCEPT ![p] = "uploaded"]
                /\ UNCHANGED << error, all_annotate, locals >>
    /\ UNCHANGED << clock, delivered, event, wrote_before, run_calls,
                    published >>

\* Line 190: the upload to the archive container raises (storage error).
UploadArchiveFails(p) ==
    /\ pc[p] = "uploaded"
    /\ Raise(p, "Exception", "upload_archive")
    /\ UNCHANGED << clock, blobs, delivered, event, wrote_before, run_calls,
                    run_writes, replaced, unarchived, published, dest_writes >>

\* Lines 176-191: a copy of the record, stamped with the current time, goes to
\* process-archive under a name made of the second the clock is read at next;
\* a blob of that name makes the upload raise. Then the handler returns.
UploadArchive(p) ==
    /\ pc[p] = "uploaded"
    /\ \E now \in utcnow(clock) : \E timestamp \in utcnow(now) :
       LET name == archive_blob_name(timestamp)
           data == ArchiveData(parsed_data[p][1], now)
       IN  /\ clock' = timestamp
           /\ IF UploadConflict(blobs, archive_container, name,
                                ArchiveOverwrite)
              THEN /\ Raise(p, "ResourceExistsError", "upload_archive")
                   /\ UNCHANGED << blobs, run_writes, unarchived, published,
                                   dest_writes >>
              ELSE /\ blobs' =
                          upload_blob(blobs, archive_container, name, data)
                   /\ unarchived' =
                          { r \in unarchived : ~Archived(blobs', r) }
                   /\ run_writes' = [run_writes EXCEPT ![p] =
                          @ \cup {BlobId(archive_container, name)}]
                   /\ published' = published + 1
                   /\ UNCHANGED dest_writes
                   /\ pc' = [pc EXCEPT ![p] = "published"]
                   /\ UNCHANGED << error, all_annotate, locals >>
    /\ UNCHANGED << delivered, event, wrote_before, run_calls, replaced >>

\* Lines 25-28: after an exception the host runs the handler again, at some
\* later time (the length of the wait is the host's and is left open).
HostRetry(p) ==
    /\ pc[p] = "raised"
    /\ ShouldRetry(retry_count[p])
    /\ retry_count' = [retry_count EXCEPT ![p] = @ + 1]
    /\ Enter(p)
    /\ wrote_before' = [wrote_before EXCEPT ![p] = @ \/ run_writes[p] # {}]
    /\ UNCHANGED << clock, blobs, delivered, myblob, all_annotate, unarchived,
                    published, dest_writes >>

\* Lines 25-28: the retries are used up; the failure stands.
HostGiveUp(p) ==
    /\ pc[p] = "raised"
    /\ ~ShouldRetry(retry_count[p])
    /\ pc' = [pc EXCEPT ![p] = "failed"]
    /\ UNCHANGED << clock, blobs, delivered, event, locals, error, hist,
                    unarchived, published, dest_writes >>

\* ---------------------------------------------------------- specification

InitWith(workers) ==
    /\ clock = [sec |-> 0, frac |-> 0]
    /\ blobs = {}
    /\ delivered = 0
    /\ pc = [p \in Procs |-> IF p \in workers THEN "idle" ELSE "off"]
    /\ myblob = [p \in Procs |-> <<>>]
    /\ retry_count = [p \in Procs |-> 0]
    /\ env = [p \in Procs |-> NoEnv]
    /\ credentials = [p \in Procs |-> "none"]
    /\ encoded_image = [p \in Procs |-> "none"]
    /\ response = [p \in Procs |-> <<>>]
    /\ parsed_data = [p \in Procs |-> <<>>]
    /\ error = [p \in Procs |-> NoError]
    /\ all_annotate = [p \in Procs |-> TRUE]
    /\ wrote_before = [p \in Procs |-> FALSE]
    /\ run_calls = [p \in Procs |-> 0]
    /\ run_writes = [p \in Procs |-> {}]
    /\ replaced = [p \in Procs |-> <<>>]
    /\ unarchived = {}
    /\ published = 0
    /\ dest_writes = 0

\* Empty containers and a single worker: the events are processed one after
\* another.
Init == InitWith({"w1"})

\* Empty containers and every worker free: events are processed concurrently.
InitConc == InitWith(Procs)

Next ==
    \/ \E p \in Procs : Deliver(p)
    \/ \E p \in Procs : Validate(p)
    \/ \E p \in Procs : ResolveCredentials(p)
    \/ \E p \in Procs : Normalize(p)
    \/ \E p \in Procs : AnnotateFails(p)
    \/ \E p \in Procs : Annotate(p)
    \/ \E p \in Procs : UploadProcessFails(p)
    \/ \E p \in Procs : UploadProcess(p)
    \/ \E p \in Procs : UploadArchiveFails(p)
    \/ \E p \in Procs : UploadArchive(p)
    \/ \E p \in Procs : HostRetry(p)
    \/ \E p \in Procs : HostGiveUp(p)

Spec == Init /\ [][Next]_vars

SpecConc == InitConc /\ [][Next]_vars

\* The single worker under a host that keeps going: a handler that can take
\* its next step takes it (every call returns or raises), and the host makes a
\* pending retry after its wait of at most maximum_interval (line 28).
SpecLive == Init /\ [][Next]_vars /\ WF_vars(Next)

\* ------------------------------------------- the parse step on its own

\* Longest list of hits in an answer.
MaxHits == 2

SeqsUpTo(S, n) == UNION { [1..k -> S] : k \in 0..n }

\* Hits the API can return (scores in hundredths).
TextHits == [description : {"STOP", "GO"}]
LabelHits == [description : {"cat", "dog"}, score : {0, 92, 100}]

\* First entries of an answer: both lists, or one of them left out.
ApiResponses ==
    { [textAnnotations |-> t, labelAnnotations |-> l] :
          t \in SeqsUpTo(TextHits, MaxHits),
          l \in SeqsUpTo(LabelHits, MaxHits) }
    \cup { [labelAnnotations |-> l] : l \in SeqsUpTo(LabelHits, MaxHits) }
    \cup { [textAnnotations |-> t] : t \in SeqsUpTo(TextHits, MaxHits) }

\* A handler that is about to receive a non-empty answer for image/a.png.
InitParse ==
    /\ clock = [sec |-> 0, frac |-> 0]
    /\ blobs = {}
    /\ delivered = 1
    /\ pc = [p \in Procs |-> IF p = "w1" THEN "normalized" ELSE "off"]
    /\ myblob = [p \in Procs |->
                    IF p = "w1"
                    THEN << [name |-> "image/a.png", length |-> 4,
                             mode |-> "RGBA"] >>
                    ELSE <<>>]
    /\ retry_count = [p \in Procs |-> 0]
    /\ env = [p \in Procs |-> NoEnv]
    /\ credentials = [p \in Procs |-> IF p = "w1" THEN "b64" ELSE "none"]
    /\ encoded_image = [p \in Procs |-> IF p = "w1" THEN "RGB" ELSE "none"]
    /\ \E a \in ApiResponses :
          response = [p \in Procs |->
                         IF p = "w1" THEN << [responses |-> <<a>>] >>
                         ELSE <<>>]
    /\ parsed_data = [p \in Procs |-> <<>>]
    /\ error = [p \in Procs |-> NoError]
    /\ all_annotate = [p \in Procs |-> TRUE]
    /\ wrote_before = [p \in Procs |-> FALSE]
    /\ run_calls = [p \in Procs |-> 1]
    /\ run_writes = [p \in Procs |-> {}]
    /\ replaced = [p \in Procs |-> <<>>]
    /\ unarchived = {}
    /\ published = 0
    /\ dest_writes = 0

\* Lines 146-162 on the answer received.
Parse(p) ==
    /\ pc[p] = "normalized"
    /\ response[p] # <<>>
    /\ ~ResponseIsEmpty(response[p][1])
    /\ \E now \in utcnow(clock) :
          /\ clock' = now
          /\ parsed_data' = [parsed_data EXCEPT ![p] =
                << ParseResponse(response[p][1], myblob[p][1].name, now) >>]
    /\ pc' = [pc EXCEPT ![p] = "annotated"]
    /\ UNCHANGED << blobs, delivered, event, env, credentials, encoded_image,
                    response, error, hist, unarchived, published, dest_writes >>

NextParse == \E p \in Procs : Parse(p)

SpecParse == InitParse /\ [][NextParse]_vars

\* --------------------------------------- the normalize step on its own

\* Largest blob, in bytes.
MaxLength == 2

\* Modes Image.open gives an image: bilevel, grey, palette, colour, with or
\* without an alpha band.
Modes ==
    { "1", "L", "LA", "P", "PA", "RGB", "RGBA", "CMYK", "YCbCr", "I", "F",
      "I;16" }

\* Modes with an alpha band.
AlphaModes == { "LA", "PA", "RGBA" }

\* Decodable blobs; transparency is the entry of that name in image.info (a
\* transparent colour or palette entry of a PNG or GIF).
Images ==
    [ name : {"image/a.png", "image/b.gif"}, length : 1..MaxLength,
      mode : Modes, transparency : BOOLEAN ]

\* A validated handler with credentials that is about to read its blob.
InitNormalize ==
    /\ clock = [sec |-> 0, frac |-> 0]
    /\ blobs = {}
    /\ delivered = 1
    /\ pc = [p \in Procs |-> IF p = "w1" THEN "credentialed" ELSE "off"]
    /\ \E image \in Images :
          myblob = [p \in Procs |-> IF p = "w1" THEN <<image>> ELSE <<>>]
    /\ retry_count = [p \in Procs |-> 0]
    /\ env = [p \in Procs |-> NoEnv]
    /\ credentials = [p \in Procs |-> IF p = "w1" THEN "b64" ELSE "none"]
    /\ encoded_image = [p \in Procs |-> "none"]
    /\ response = [p \in Procs |-> <<>>]
    /\ parsed_data = [p \in Procs |-> <<>>]
    /\ error = [p \in Procs |-> NoError]
    /\ all_annotate = [p \in Procs |-> TRUE]
    /\ wrote_before = [p \in Procs |-> FALSE]
    /\ run_calls = [p \in Procs |-> 0]
    /\ run_writes = [p \in Procs |-> {}]
    /\ replaced = [p \in Procs |-> <<>>]
    /\ unarchived = {}
    /\ published = 0
    /\ dest_writes = 0

NextNormalize == \E p \in Procs : Normalize(p)

SpecNormalize == InitNormalize /\ [][NextNormalize]_vars

\* ------------------------------------------------------------ properties

HasCurrent == \E b \in blobs : b.container = "process"
Current == (CHOOSE b \in blobs : b.container = "process").data
ArchiveEntries == { b \in blobs : b.container = "process-archive" }
CopyOf(b) ==
    [ text_annotations |-> b.data.text_annotations,
      label_annotations |-> b.data.label_annotations,
      processed_image |-> b.data.processed_image,
      processed_at |-> b.data.processed_at ]
DistinctKeys == \A a, b \in ArchiveEntries : a.name = b.name => a = b
Failed(p) == pc[p] \in {"raised", "failed"}

\* C1: after a successful execution that found record R1 at
\* process/latest_result.json and publishes R2, the archive holds an entry
\* this execution created whose content is R1, and the destination holds R2.
\* (With a single worker, the record the upload replaced is the record the
\* execution started with.)
C1_ArchivesPredecessor ==
    \A p \in Procs :
        (pc[p] = "published" /\ replaced[p] # <<>>) =>
            /\ \E b \in ArchiveEntries :
                  /\ [container |-> b.container, name |-> b.name]
                         \in run_writes[p]
                  /\ CopyOf(b) = replaced[p][1]
            /\ HasCurrent
            /\ Current = parsed_data[p][1]

\* C2: in every reachable state, every record that was the current record
\* and has been replaced has a copy in the archive, and no two archive entries
\* share a timestamp key.
C2_ReplacedRecordsArchived == unarchived = {} /\ DistinctKeys

\* C3: after N executions that returned normally the storage holds one
\* current record and at least N-1 archive entries, under pairwise distinct
\* timestamp keys.
C3_ArchiveSafe ==
    /\ Cardinality(ArchiveEntries) >= published - 1
    /\ published >= 1 =>
          Cardinality({ b \in blobs : b.container = "process" }) = 1
    /\ DistinctKeys

C3_Witness == published = 2 /\ Cardinality(ArchiveEntries) = 2

\* C4: the archive write precedes the destination write: an execution whose
\* archive upload raised has not written the destination.
C4_ArchiveBeforeDestination ==
    \A p \in Procs :
        (pc[p] = "raised" /\ error[p].step = "upload_archive") =>
            ~ \E w \in run_writes[p] : w.container = "process"

\* C5: an execution on an event of length 0 ends in a ValueError, without an
\* annotate call and without an upload (neither by it nor by an earlier
\* execution for the same event).
C5_EmptyBlobRejected ==
    \A p \in Procs :
        (myblob[p] # <<>> /\ myblob[p][1].length = 0 /\ pc[p] # "received") =>
            /\ Failed(p)
            /\ error[p].type = "ValueError"
            /\ run_calls[p] = 0
            /\ run_writes[p] = {}
            /\ ~wrote_before[p]

C5_Witness ==
    \E p \in Procs :
        /\ myblob[p] # <<>>
        /\ myblob[p][1].length = 0
        /\ pc[p] = "failed"
        /\ error[p].step = "empty_blob"

\* C6: when the annotate call has failed in the first execution and in each
\* of the max_retry_count retries, no further execution follows, the last
\* error stands, and no execution for the event has uploaded anything.
C6_AnnotateBudgetExhausted ==
    \A p \in Procs :
        (Failed(p) /\ all_annotate[p] /\ retry_count[p] >= max_retry_count) =>
            /\ retry_count[p] = max_retry_count
            /\ error[p] = [type |-> "Exception", step |-> "annotate"]
            /\ run_writes[p] = {}
            /\ ~wrote_before[p]
            /\ parsed_data[p] = <<>>

C6_Witness ==
    \E p \in Procs :
        /\ pc[p] = "failed"
        /\ all_annotate[p]
        /\ retry_count[p] = max_retry_count
        /\ HasCurrent

C8_FatalRunsOnce ==
    \A p \in Procs :
        (Failed(p) /\ error[p].step \in {"empty_blob", "credentials"}) =>
            retry_count[p] = 0

\* C9: credential resolution fails only when neither the base64 variable nor
\* the file yields credentials; an unusable base64 value with a valid file
\* resolves from the file.
C9_FirstUsableSourceWins ==
    [][ \A p \in Procs :
          (pc[p] = "validated" /\ pc'[p] = "raised") =>
              /\ env[p].google_credentials_b64 # "valid"
              /\ env[p].google_credentials_file # "valid"
      ]_vars

\* C10: when two concurrent workers have each run once and both have
\* published, the destination holds the record of one of them, every record
\* that was replaced there has a copy in the archive, and the archive keys are
\* distinct.
C10_ConcurrentArchiveInvariant ==
    ( /\ delivered = Cardinality(Procs)
      /\ \A p \in Procs : pc[p] = "published" /\ retry_count[p] = 0 ) =>
        /\ Cardinality({ b \in blobs : b.container = "process" }) = 1
        /\ \E p \in Procs : Current = parsed_data[p][1]
        /\ \A p \in Procs :
              replaced[p] # <<>> =>
                  \E b \in ArchiveEntries : CopyOf(b) = replaced[p][1]
        /\ unarchived = {}
        /\ Cardinality(ArchiveEntries) = Cardinality(Procs)
        /\ DistinctKeys

\* w2 replaced the record of w1 and archived its own before w1 archived.
C10_Witness ==
    /\ delivered = Cardinality(Procs)
    /\ \A p \in Procs : pc[p] = "published" /\ retry_count[p] = 0
    /\ replaced["w2"] = parsed_data["w1"]
    /\ \E a, b \in ArchiveEntries :
          /\ CopyOf(a) = parsed_data["w1"][1]
          /\ CopyOf(b) = parsed_data["w2"][1]
          /\ b.data.archived_at[1] < a.data.archived_at[1]

\* C11: an archive entry, once created, stays: no step removes it or changes
\* its content, also not the step of an execution that computes the name of an
\* existing entry.
C11_ArchiveWriteOnce ==
    [][ \A b \in ArchiveEntries : b \in blobs' ]_vars

\* An execution has computed the name of an existing entry, and its upload
\* raised; the entry is the copy of another record than the one it wrote.
C11_Witness ==
    \E p \in Procs : \E b \in ArchiveEntries :
        /\ pc[p] = "raised"
        /\ error[p] = [type |-> "ResourceExistsError",
                       step |-> "upload_archive"]
        /\ b.name = archive_blob_name(clock)
        /\ HasCurrent
        /\ CopyOf(b) # Current

\* C12: every archive entry has the fields of the record at
\* process/latest_result.json and no other: text_annotations,
\* label_annotations, processed_image, processed_at.
C12_ArchiveShape ==
    \A b \in ArchiveEntries :
        /\ DOMAIN b.data = { "text_annotations", "label_annotations",
                             "processed_image", "processed_at" }
        /\ \A c \in blobs :
              c.container = "process" => DOMAIN b.data = DOMAIN c.data

\* The errors each stage of the handler can raise.
StepsOf(stage) ==
    CASE stage = "received" -> {"config", "empty_blob", "storage_client"}
      [] stage = "validated" -> {"credentials"}
      [] stage = "credentialed" -> {"decode", "encode"}
      [] stage = "normalized" -> {"annotate", "response"}
      [] stage = "annotated" -> {"upload_process"}
      [] stage = "uploaded" -> {"upload_archive"}
      [] OTHER -> {}

\* C13: no failure is swallowed. A stage whose error condition holds ends the
\* execution in the raised state, with the error of that stage; a raised
\* execution never goes on to a later stage or returns normally, and the error
\* stands until the host starts the handler again; only an execution that
\* raised nothing returns normally.
C13_NoSwallowedFailure ==
    [][ \A p \in Procs :
          LET moved == pc'[p] # pc[p]
          IN  /\ ( /\ pc[p] = "validated"
                   /\ CredentialLoadFails(env[p])
                   /\ moved ) => pc'[p] = "raised"
              /\ ( /\ pc[p] = "credentialed"
                   /\ \/ ~Decodable(myblob[p][1].mode)
                      \/ ~JpegWritable(ConvertMode(myblob[p][1].mode))
                   /\ moved ) => pc'[p] = "raised"
              /\ (moved /\ pc'[p] = "raised") =>
                     /\ error'[p].step \in StepsOf(pc[p])
                     /\ error'[p].type # "none"
              /\ pc[p] = "raised" =>
                     /\ pc'[p] \in {"raised", "received", "failed"}
                     /\ pc'[p] # "received" => error'[p] = error[p]
              /\ (moved /\ pc'[p] = "published") =>
                     /\ pc[p] = "uploaded"
                     /\ error[p] = NoError
                     /\ error'[p] = NoError
      ]_vars

\* A failure of the last upload, after the destination was written, has been
\* surfaced to the host.
C13_Witness ==
    \E p \in Procs :
        /\ pc[p] = "failed"
        /\ error[p].step = "upload_archive"
        /\ HasCurrent

\* C14: the record's text_annotations and label_annotations are the
\* element-by-element images of the answer's textAnnotations and
\* labelAnnotations: same length, same order, each confidence the score, and
\* a list that is left out gives an empty list.
C14_AnnotationsMappedInOrder ==
    \A p \in Procs :
        (pc[p] = "annotated" /\ response[p] # <<>>) =>
            LET api == response[p][1].responses[1]
                texts == IF "textAnnotations" \in DOMAIN api
                         THEN api.textAnnotations ELSE <<>>
                labels == IF "labelAnnotations" \in DOMAIN api
                          THEN api.labelAnnotations ELSE <<>>
                data == parsed_data[p][1]
            IN  /\ Len(data.text_annotations) = Len(texts)
                /\ \A i \in 1..Len(texts) :
                      data.text_annotations[i] =
                          [text |-> texts[i].description]
                /\ Len(data.label_annotations) = Len(labels)
                /\ \A i \in 1..Len(labels) :
                      data.label_annotations[i] =
                          [label |-> labels[i].description,
                           confidence |-> labels[i].score]

\* One label cat/0.92 and no text list.
C14_Witness ==
    \E p \in Procs :
        /\ pc[p] = "annotated"
        /\ response[p] = << [responses |->
               << [labelAnnotations |->
                      << [description |-> "cat", score |-> 92] >>] >>] >>
        /\ parsed_data[p][1].label_annotations =
               << [label |-> "cat", confidence |-> 92] >>
        /\ parsed_data[p][1].text_annotations = <<>>

\* C15: a decodable image with an alpha band or a transparency entry is
\* normalized without an error, and what is sent to the API has no alpha band.
C15_TransparencyFlattened ==
    \A p \in Procs :
        ( /\ myblob[p] # <<>>
          /\ pc[p] \notin {"credentialed", "off"}
          /\ \/ myblob[p][1].mode \in AlphaModes
             \/ myblob[p][1].transparency ) =>
            /\ pc[p] = "normalized"
            /\ encoded_image[p] \notin AlphaModes \cup {"none"}

\* The order of the stages of one execution.
StageAfter(stage) ==
    CASE stage = "received" -> "validated"
      [] stage = "validated" -> "credentialed"
      [] stage = "credentialed" -> "normalized"
      [] stage = "normalized" -> "annotated"
      [] stage = "annotated" -> "uploaded"
      [] stage = "uploaded" -> "published"
      [] OTHER -> "none"

\* C16: an execution goes through validate, resolve credentials, normalize,
\* annotate and the two uploads in this order, leaving a stage only for the
\* next one or for the error path, and it ends either published or raised;
\* the annotate call is made only with credentials and an encoded image, and a
\* blob is uploaded only after the call returned a non-empty answer.
C16_StagesInOrder ==
    [][ \A p \in Procs :
          /\ blobs' # blobs => \E q \in Procs : run_writes'[q] # run_writes[q]
          /\ pc'[p] # pc[p] =>
                \/ pc'[p] \in {StageAfter(pc[p]), "raised"}
                       /\ StageAfter(pc[p]) # "none"
                \/ pc[p] = "raised" /\ pc'[p] \in {"received", "failed"}
                \/ pc[p] \in {"idle", "published", "failed"}
                       /\ pc'[p] = "received"
          /\ run_calls'[p] > run_calls[p] =>
                /\ pc[p] = "normalized"
                /\ credentials[p] \in {"b64", "file"}
                /\ encoded_image[p] # "none"
                /\ run_calls[p] = 0
          /\ (run_writes'[p] # run_writes[p] /\ run_writes'[p] # {}) =>
                /\ pc[p] \in {"annotated", "uploaded"}
                /\ run_calls[p] = 1
                /\ response[p] # <<>>
                /\ ~ResponseIsEmpty(response[p][1])
                /\ parsed_data[p] # <<>>
      ]_vars

C16_Witness ==
    \E p \in Procs :
        /\ pc[p] = "published"
        /\ run_calls[p] = 1
        /\ credentials[p] = "file"
        /\ encoded_image[p] = "RGB"
        /\ Cardinality(run_writes[p]) = 2

\* C17: an execution whose answer has no entries (no responses list, or an
\* empty one) raises and uploads nothing; an execution that parsed a record,
\* uploaded or returned has an answer with at least one entry.
C17_EmptyResponseRejected ==
    \A p \in Procs :
        /\ pc[p] \in {"annotated", "uploaded", "published"} =>
              /\ response[p] # <<>>
              /\ "responses" \in DOMAIN response[p][1]
              /\ response[p][1].responses # <<>>
        /\ (Failed(p) /\ error[p].step = "response") =>
              /\ error[p].type = "ValueError"
              /\ run_calls[p] = 1
              /\ run_writes[p] = {}
              /\ parsed_data[p] = <<>>

C17_Witness ==
    \E p \in Procs :
        /\ pc[p] = "raised"
        /\ error[p].step = "response"
        /\ retry_count[p] = 1
        /\ ~wrote_before[p]

\* C18: the processing of a delivered event terminates: the host makes at
\* most max_retry_count retries, and every execution that has started leads to
\* the event being published or its failure being final.
C18_BoundedRetries ==
    /\ [](\A p \in Procs : retry_count[p] <= max_retry_count)
    /\ \A p \in Procs :
          (pc[p] = "received") ~> (pc[p] \in {"published", "failed"})

\* The storage layer has failed the last upload of all four executions.
C18_Witness ==
    \E p \in Procs :
        /\ pc[p] = "failed"
        /\ retry_count[p] = max_retry_count
        /\ error[p].step = "upload_archive"
        /\ wrote_before[p]

\* C19: every archive entry is created by an execution that has uploaded
\* the same record (the entry without archived_at) to
\* process/latest_result.json before, so there are never more archive entries
\* than uploads to process/latest_result.json.
C19_ArchiveFollowsDestination ==
    /\ [](Cardinality(ArchiveEntries) <= dest_writes)
    /\ [][ \A p \in Procs :
             /\ (pc[p] = "annotated" /\ pc'[p] = "uploaded") =>
                   /\ dest_writes' = dest_writes + 1
                   /\ \E c \in blobs' :
                         /\ c.container = "process"
                         /\ c.data = parsed_data'[p][1]
                         /\ [container |-> c.container, name |-> c.name]
                                \in run_writes'[p]
             /\ (pc[p] = "uploaded" /\ pc'[p] \in {"uploaded", "published"})
                   => /\ parsed_data'[p] = parsed_data[p]
                      /\ run_writes[p] \subseteq run_writes'[p]
             /\ \A b \in ArchiveEntries' \ ArchiveEntries :
                   \E q \in Procs :
                       /\ pc[q] = "uploaded"
                       /\ pc'[q] = "published"
                       /\ CopyOf(b) = parsed_data[q][1]
                       /\ \E w \in run_writes[q] : w.container = "process"
         ]_vars

\* An upload to process/latest_result.json was never followed by its archive
\* entry.
C19_Witness ==
    /\ Cardinality(ArchiveEntries) = 1
    /\ dest_writes = 3
    /\ \E p \in Procs : pc[p] = "published" /\ retry_count[p] = 2

====
